---- MODULE Spec2Model ----
(***************************************************************************)
(* Shape-level model of src/model.py: the layer tables the classes build   *)
(* in __init__, the order forward applies them in, and the shape           *)
(* arithmetic and argument checks of the torch layers they delegate to.    *)
(* A tensor is represented by its shape <<N, C, H, W>>; dropout            *)
(* probabilities are in percent (0.05 is 5).                               *)
(***************************************************************************)
EXTENDS Integers, Sequences, FiniteSets

VARIABLES
    dropout_value,  \* the module global of that name: <<>> unbound, <<p>> bound
    ret,            \* arguments and outcome of the direct call of normalizer
    cls,            \* class of the instance under construction / in use
    norm,           \* norm_method argument given to Model
    pc,             \* "idle" | "init" | "init_error" | "ready" | "forward"
                    \* | "forward_error" | "done"
    idx,            \* next statement of __init__ / forward
    attrs,          \* attributes __init__ has stored on the instance, in order
    training,       \* nn.Module.training of the instance
    input,          \* shape of the tensor given to forward
    x,              \* shape of the local x of forward
    applied,        \* attributes forward has applied to x, in order
    shapes,         \* shape of x after each statement of forward
    err             \* the exception the current call ended in

vars == <<dropout_value, ret, cls, norm, pc, idx, attrs, training, input, x,
          applied, shapes, err>>

\* ------------------------------------------------------------------ bounds
MaxN == 2
MaxHW == 32
MaxCh == 32
MaxSkew == 3

\* --------------------------------------------------------------- constants
NUM_GROUPS == 8

NormalizationMethod == {"BATCH", "LAYER", "GROUP"}

\* An argument that is none of the enum's members (None, an int, a string).
NotAMember == "None"

MethodArgs == NormalizationMethod \cup {NotAMember}

\* Values an importer can bind the free name dropout_value to, in percent.
DropoutValues == {10, 150}

Classes == {"Model", "session_6_Model", "Session_7_Model_1",
            "Session_7_Model_2", "Session_7_Model_3"}

SessionClasses == Classes \ {"Model"}

\* ------------------------------------------------------------- exceptions
NoErr == [origin |-> "none", type |-> "none"]

\* origin "repository": raised by a statement of src/model.py itself;
\* origin "library": raised inside torch.
Raise(origin, type) == [origin |-> origin, type |-> type]

\* ------------------------------------------------- layer constructor calls
\* One record shape for every layer expression of the file.  ref names the
\* module global the call reads its dropout probability from ("" for none)
\* and method is the argument of a normalizer(...) call.
Call(kind, cin, cout, k, pad, stride, groups, p, ref, method) ==
    [kind |-> kind, cin |-> cin, cout |-> cout, k |-> k, pad |-> pad,
     stride |-> stride, groups |-> groups, p |-> p, ref |-> ref,
     method |-> method]

Conv2d(cin, cout, k, pad) == Call("Conv2d", cin, cout, k, pad, 1, 0, 0, "", "")

BatchNorm2d(c) == Call("BatchNorm2d", c, c, 0, 0, 0, 0, 0, "", "")

GroupNorm(g, c) == Call("GroupNorm", c, c, 0, 0, 0, g, 0, "", "")

ReLU == Call("ReLU", 0, 0, 0, 0, 0, 0, 0, "", "")

Dropout(p) == Call("Dropout", 0, 0, 0, 0, 0, 0, p, "", "")

\* nn.Dropout(dropout_value): the probability is read from the module global.
DropoutOfGlobal == Call("Dropout", 0, 0, 0, 0, 0, 0, 0, "dropout_value", "")

MaxPool2d(k, stride) == Call("MaxPool2d", 0, 0, k, 0, stride, 0, 0, "", "")

\* nn.AvgPool2d(kernel_size=k): the stride defaults to the kernel size.
AvgPool2d(k) == Call("AvgPool2d", 0, 0, k, 0, k, 0, 0, "", "")

AdaptiveAvgPool2d(o) == Call("AdaptiveAvgPool2d", 0, 0, o, 0, 0, 0, 0, "", "")

\* normalizer(method=m, out_channels=c), not yet evaluated.
NormalizerCall(m, c) == Call("normalizer", c, c, 0, 0, 0, 0, 0, "", m)

NoLayer == Call("none", 0, 0, 0, 0, 0, 0, 0, "", "")

\* Outcome of evaluating one expression: the layer built, or the exception.
Built(l) == [err |-> NoErr, layer |-> l]

Failed(e) == [err |-> e, layer |-> NoLayer]

\* The argument checks the torch constructors make: GroupNorm rejects a
\* channel count its group count does not divide, Dropout a probability
\* outside [0, 1].
LibNew(c) ==
    IF c.kind = "GroupNorm" /\ c.cout % c.groups # 0
      THEN Failed(Raise("library", "ValueError"))
    ELSE IF c.kind = "Dropout" /\ (c.p < 0 \/ c.p > 100)
      THEN Failed(Raise("library", "ValueError"))
    ELSE Built(c)

\* normalizer with the group counts of LAYER and GROUP exchanged.
normalizer_GroupsSwapped(method, out_channels) ==
    IF method = "BATCH" THEN LibNew(BatchNorm2d(out_channels))
    ELSE IF method = "LAYER" THEN LibNew(GroupNorm(NUM_GROUPS, out_channels))
    ELSE IF method = "GROUP" THEN LibNew(GroupNorm(1, out_channels))
    ELSE Failed(Raise("repository", "ValueError"))

\* def normalizer(method, out_channels)
normalizer(method, out_channels) ==
    IF method = "BATCH" THEN LibNew(BatchNorm2d(out_channels))
    ELSE IF method = "LAYER" THEN LibNew(GroupNorm(1, out_channels))
    ELSE IF method = "GROUP" THEN LibNew(GroupNorm(NUM_GROUPS, out_channels))
    ELSE Failed(Raise("repository", "ValueError"))

\* Evaluation of one layer expression of an __init__ with the module global
\* dropout_value bound as dv says: a free name that is unbound is a NameError.
EvalCall(c, dv) ==
    IF c.kind = "normalizer" THEN normalizer(c.method, c.cout)
    ELSE IF c.ref = "dropout_value"
      THEN IF dv = <<>>
             THEN Failed(Raise("repository", "NameError"))
             ELSE LibNew([c EXCEPT !.p = dv[1], !.ref = ""])
    ELSE LibNew(c)

\* ------------------------------------------------------------ components
\* One assignment statement of an __init__: self.<attr> = <blocks>.  blocks
\* is a sequence of blocks and a block a sequence of layer expressions: an
\* nn.Sequential of layers is one block, an nn.Sequential of ConvLayers one
\* block per ConvLayer, a bare layer a block of one layer.
Stmt(attr, blocks) == [attr |-> attr, blocks |-> blocks]

\* ConvLayer with a dropout that only BATCH gets.
ConvLayer_DropoutForBatchOnly(in_channels, out_channels, padding, norm_method) ==
    IF norm_method = "BATCH"
      THEN << Conv2d(in_channels, out_channels, 3, padding),
              NormalizerCall(norm_method, out_channels),
              ReLU,
              Dropout(5) >>
      ELSE << Conv2d(in_channels, out_channels, 3, padding),
              NormalizerCall(norm_method, out_channels),
              ReLU >>

\* ConvLayer.__init__: self.layer.  Kernels are square, so kernel_size=(3, 3)
\* is 3.
ConvLayer(in_channels, out_channels, padding, norm_method) ==
    << Conv2d(in_channels, out_channels, 3, padding),
       NormalizerCall(norm_method, out_channels),
       ReLU,
       Dropout(5) >>

\* TransBlock with a pooling stride of 1.
TransBlock_Stride1(in_channels, out_channels) ==
    << Conv2d(in_channels, out_channels, 1, 0),
       MaxPool2d(2, 1) >>

\* TransBlock.__init__: self.layer.
TransBlock(in_channels, out_channels) ==
    << Conv2d(in_channels, out_channels, 1, 0),
       MaxPool2d(2, 2) >>

\* Model.__init__ with trans_block2 yielding 32 channels instead of 16.
Model_init_WideTrans2(norm_method) ==
    << Stmt("conv_block1", << ConvLayer(3, 16, 1, norm_method),
                              ConvLayer(16, 32, 1, norm_method) >>),
       Stmt("trans_block1", << TransBlock(32, 16) >>),
       Stmt("conv_block2", << ConvLayer(16, 16, 1, norm_method),
                              ConvLayer(16, 16, 1, norm_method),
                              ConvLayer(16, 32, 1, norm_method) >>),
       Stmt("trans_block2", << TransBlock(32, 32) >>),
       Stmt("conv_block3", << ConvLayer(16, 16, 1, norm_method),
                              ConvLayer(16, 16, 1, norm_method),
                              ConvLayer(16, 32, 1, norm_method) >>),
       Stmt("trans_block3", << TransBlock(32, 16) >>),
       Stmt("gap", << << AdaptiveAvgPool2d(1) >> >>),
       Stmt("out", << << Conv2d(16, 10, 1, 0) >> >>) >>

\* Model.__init__
Model_init(norm_method) ==
    << Stmt("conv_block1", << ConvLayer(3, 16, 1, norm_method),
                              ConvLayer(16, 32, 1, norm_method) >>),
       Stmt("trans_block1", << TransBlock(32, 16) >>),
       Stmt("conv_block2", << ConvLayer(16, 16, 1, norm_method),
                              ConvLayer(16, 16, 1, norm_method),
                              ConvLayer(16, 32, 1, norm_method) >>),
       Stmt("trans_block2", << TransBlock(32, 16) >>),
       Stmt("conv_block3", << ConvLayer(16, 16, 1, norm_method),
                              ConvLayer(16, 16, 1, norm_method),
                              ConvLayer(16, 32, 1, norm_method) >>),
       Stmt("trans_block3", << TransBlock(32, 16) >>),
       Stmt("gap", << << AdaptiveAvgPool2d(1) >> >>),
       Stmt("out", << << Conv2d(16, 10, 1, 0) >> >>) >>

\* Model.forward with conv_block2 and conv_block3 exchanged.
Model_forward_Swapped ==
    << "conv_block1", "trans_block1", "conv_block3", "trans_block2",
       "conv_block2", "trans_block3", "gap", "out" >>

\* Model.forward, up to x = self.out(x)
Model_forward ==
    << "conv_block1", "trans_block1", "conv_block2", "trans_block2",
       "conv_block3", "trans_block3", "gap", "out" >>

\* session_6_Model.__init__
session_6_Model_init ==
    << Stmt("convblock1", << << Conv2d(1, 16, 3, 0), ReLU, BatchNorm2d(16),
                                DropoutOfGlobal >> >>),
       Stmt("convblock2", << << Conv2d(16, 32, 3, 0), ReLU, BatchNorm2d(32),
                                DropoutOfGlobal >> >>),
       Stmt("convblock3", << << Conv2d(32, 10, 1, 0) >> >>),
       Stmt("pool1", << << MaxPool2d(2, 2) >> >>),
       Stmt("convblock4", << << Conv2d(10, 16, 3, 0), ReLU, BatchNorm2d(16),
                                DropoutOfGlobal >> >>),
       Stmt("convblock5", << << Conv2d(16, 16, 3, 0), ReLU, BatchNorm2d(16),
                                DropoutOfGlobal >> >>),
       Stmt("convblock6", << << Conv2d(16, 16, 3, 0), ReLU, BatchNorm2d(16),
                                DropoutOfGlobal >> >>),
       Stmt("convblock7", << << Conv2d(16, 16, 3, 1), ReLU, BatchNorm2d(16),
                                DropoutOfGlobal >> >>),
       Stmt("gap", << << AvgPool2d(6) >> >>),
       Stmt("convblock8", << << Conv2d(16, 10, 1, 0) >> >>),
       Stmt("dropout", << << DropoutOfGlobal >> >>) >>

\* session_6_Model.forward, up to x = self.convblock8(x)
session_6_Model_forward ==
    << "convblock1", "convblock2", "convblock3", "pool1", "convblock4",
       "convblock5", "convblock6", "convblock7", "gap", "convblock8" >>

\* Session_7_Model_1.__init__
Session_7_Model_1_init ==
    << Stmt("convblock1", << << Conv2d(1, 8, 3, 0), ReLU, BatchNorm2d(8),
                                DropoutOfGlobal >> >>),
       Stmt("convblock2", << << Conv2d(8, 16, 3, 0), ReLU, BatchNorm2d(16),
                                DropoutOfGlobal >> >>),
       Stmt("convblock3", << << Conv2d(16, 10, 1, 0) >> >>),
       Stmt("pool1", << << MaxPool2d(2, 2) >> >>),
       Stmt("convblock4", << << Conv2d(10, 10, 3, 0), ReLU, BatchNorm2d(10),
                                DropoutOfGlobal >> >>),
       Stmt("convblock5", << << Conv2d(10, 10, 3, 1), ReLU, BatchNorm2d(10),
                                DropoutOfGlobal >> >>),
       Stmt("pool2", << << MaxPool2d(2, 2) >> >>),
       Stmt("convblock6", << << Conv2d(10, 10, 3, 1), ReLU, BatchNorm2d(10),
                                DropoutOfGlobal >> >>),
       Stmt("gap", << << AvgPool2d(5) >> >>),
       Stmt("convblock7", << << Conv2d(10, 10, 1, 0), BatchNorm2d(10), ReLU,
                                DropoutOfGlobal >> >>),
       Stmt("dropout", << << DropoutOfGlobal >> >>) >>

\* Session_7_Model_1.forward, up to x = self.convblock7(x)
Session_7_Model_1_forward ==
    << "convblock1", "convblock2", "convblock3", "pool1", "convblock4",
       "convblock5", "pool2", "convblock6", "gap", "convblock7" >>

\* Session_7_Model_2.__init__ with convblock4 normalizing before it activates.
Session_7_Model_2_init_NormFirst ==
    << Stmt("convblock1", << << Conv2d(1, 8, 3, 0), ReLU, BatchNorm2d(8) >> >>),
       Stmt("convblock2", << << Conv2d(8, 16, 3, 0), ReLU, BatchNorm2d(16) >> >>),
       Stmt("convblock3", << << Conv2d(16, 10, 1, 0) >> >>),
       Stmt("pool1", << << MaxPool2d(2, 2) >> >>),
       Stmt("convblock4", << << Conv2d(10, 10, 3, 0), BatchNorm2d(10), ReLU >> >>),
       Stmt("convblock5", << << Conv2d(10, 16, 3, 0), ReLU, BatchNorm2d(16) >> >>),
       Stmt("convblock6", << << Conv2d(16, 10, 3, 0), ReLU, BatchNorm2d(10) >> >>),
       Stmt("convblock7", << << Conv2d(10, 10, 3, 0), ReLU, BatchNorm2d(10) >> >>),
       Stmt("convblock8", << << Conv2d(10, 10, 3, 0), ReLU, BatchNorm2d(10) >> >>),
       Stmt("convblock9", << << Conv2d(10, 10, 2, 0) >> >>) >>

\* Session_7_Model_2.__init__
Session_7_Model_2_init ==
    << Stmt("convblock1", << << Conv2d(1, 8, 3, 0), ReLU, BatchNorm2d(8) >> >>),
       Stmt("convblock2", << << Conv2d(8, 16, 3, 0), ReLU, BatchNorm2d(16) >> >>),
       Stmt("convblock3", << << Conv2d(16, 10, 1, 0) >> >>),
       Stmt("pool1", << << MaxPool2d(2, 2) >> >>),
       Stmt("convblock4", << << Conv2d(10, 10, 3, 0), ReLU, BatchNorm2d(10) >> >>),
       Stmt("convblock5", << << Conv2d(10, 16, 3, 0), ReLU, BatchNorm2d(16) >> >>),
       Stmt("convblock6", << << Conv2d(16, 10, 3, 0), ReLU, BatchNorm2d(10) >> >>),
       Stmt("convblock7", << << Conv2d(10, 10, 3, 0), ReLU, BatchNorm2d(10) >> >>),
       Stmt("convblock8", << << Conv2d(10, 10, 3, 0), ReLU, BatchNorm2d(10) >> >>),
       Stmt("convblock9", << << Conv2d(10, 10, 2, 0) >> >>) >>

\* Session_7_Model_2.forward, up to x = self.convblock9(x)
Session_7_Model_2_forward ==
    << "convblock1", "convblock2", "convblock3", "pool1", "convblock4",
       "convblock5", "convblock6", "convblock7", "convblock8", "convblock9" >>

\* Session_7_Model_3.__init__ with convblock7 padded by 1.
Session_7_Model_3_init_Padded ==
    << Stmt("convblock1", << << Conv2d(1, 8, 3, 0), ReLU, BatchNorm2d(8) >> >>),
       Stmt("convblock2", << << Conv2d(8, 16, 3, 0), ReLU, BatchNorm2d(16) >> >>),
       Stmt("convblock3", << << Conv2d(16, 10, 1, 0) >> >>),
       Stmt("pool1", << << MaxPool2d(2, 2) >> >>),
       Stmt("convblock4", << << Conv2d(10, 10, 3, 0), ReLU, BatchNorm2d(10) >> >>),
       Stmt("convblock5", << << Conv2d(10, 16, 3, 0), ReLU, BatchNorm2d(16) >> >>),
       Stmt("convblock6", << << Conv2d(16, 10, 3, 0), ReLU, BatchNorm2d(10) >> >>),
       Stmt("convblock7", << << Conv2d(10, 10, 3, 1), ReLU, BatchNorm2d(10) >> >>),
       Stmt("convblock8", << << Conv2d(10, 10, 3, 0), ReLU, BatchNorm2d(10) >> >>),
       Stmt("convblock9", << << Conv2d(10, 10, 2, 0) >> >>) >>

\* Session_7_Model_3.__init__
Session_7_Model_3_init ==
    << Stmt("convblock1", << << Conv2d(1, 8, 3, 0), ReLU, BatchNorm2d(8) >> >>),
       Stmt("convblock2", << << Conv2d(8, 16, 3, 0), ReLU, BatchNorm2d(16) >> >>),
       Stmt("convblock3", << << Conv2d(16, 10, 1, 0) >> >>),
       Stmt("pool1", << << MaxPool2d(2, 2) >> >>),
       Stmt("convblock4", << << Conv2d(10, 10, 3, 0), ReLU, BatchNorm2d(10) >> >>),
       Stmt("convblock5", << << Conv2d(10, 16, 3, 0), ReLU, BatchNorm2d(16) >> >>),
       Stmt("convblock6", << << Conv2d(16, 10, 3, 0), ReLU, BatchNorm2d(10) >> >>),
       Stmt("convblock7", << << Conv2d(10, 10, 3, 0), ReLU, BatchNorm2d(10) >> >>),
       Stmt("convblock8", << << Conv2d(10, 10, 3, 0), ReLU, BatchNorm2d(10) >> >>),
       Stmt("convblock9", << << Conv2d(10, 10, 2, 0) >> >>) >>

\* Session_7_Model_3.forward, up to x = self.convblock9(x)
Session_7_Model_3_forward ==
    << "convblock1", "convblock2", "convblock3", "pool1", "convblock4",
       "convblock5", "convblock6", "convblock7", "convblock8", "convblock9" >>

\* The statements of c.__init__ and of c.forward.
InitOf(c, norm_method) ==
    CASE c = "Model" -> Model_init(norm_method)
      [] c = "session_6_Model" -> session_6_Model_init
      [] c = "Session_7_Model_1" -> Session_7_Model_1_init
      [] c = "Session_7_Model_2" -> Session_7_Model_2_init
      [] c = "Session_7_Model_3" -> Session_7_Model_3_init

ForwardOf(c) ==
    CASE c = "Model" -> Model_forward
      [] c = "session_6_Model" -> session_6_Model_forward
      [] c = "Session_7_Model_1" -> Session_7_Model_1_forward
      [] c = "Session_7_Model_2" -> Session_7_Model_2_forward
      [] c = "Session_7_Model_3" -> Session_7_Model_3_forward

\* Number of channels of the images each class is written for.
ImageChannels(c) == IF c = "Model" THEN 3 ELSE 1

\* ------------------------------------------------- evaluation of __init__
RECURSIVE Flatten(_)
\* The layers of a sequence of blocks, in order.
Flatten(blocks) ==
    IF blocks = <<>> THEN <<>>
    ELSE Head(blocks) \o Flatten(Tail(blocks))

\* Evaluation of the right-hand side of one statement: the layer expressions
\* are evaluated left to right and the first exception ends the statement.
EvalStmt(stmt, dv) ==
    LET calls == Flatten(stmt.blocks)
        bad == {i \in 1..Len(calls) : EvalCall(calls[i], dv).err # NoErr}
    IN
    IF bad # {}
      THEN [err |-> EvalCall(calls[CHOOSE i \in bad : \A j \in bad : i <= j],
                             dv).err,
            value |-> Stmt(stmt.attr, <<>>)]
      ELSE [err |-> NoErr,
            value |-> Stmt(stmt.attr,
                           [b \in 1..Len(stmt.blocks) |->
                              [i \in 1..Len(stmt.blocks[b]) |->
                                 EvalCall(stmt.blocks[b][i], dv).layer]])]

\* ----------------------------------------------------- torch forward rules
Ok(s) == [err |-> NoErr, shape |-> s]

Bad(type) == [err |-> Raise("library", type), shape |-> <<>>]

\* Output length of a pooling window of size k and stride st over n cells
\* (no padding, floor mode); 0 when the window does not fit.
PoolOut(n, k, st) == IF n < k THEN 0 ELSE ((n - k) \div st) + 1

\* One layer applied to a tensor of shape s = <<N, C, H, W>>.
ApplyLayer(l, s, train) ==
    CASE l.kind = "Conv2d" ->
           IF s[2] # l.cin THEN Bad("RuntimeError")
           ELSE IF s[3] + 2 * l.pad < l.k \/ s[4] + 2 * l.pad < l.k
             THEN Bad("RuntimeError")
           ELSE Ok(<<s[1], l.cout, s[3] + 2 * l.pad - l.k + 1,
                     s[4] + 2 * l.pad - l.k + 1>>)
      [] l.kind = "BatchNorm2d" ->
           IF s[2] # l.cin THEN Bad("RuntimeError")
           ELSE IF train /\ s[1] * s[3] * s[4] = 1 THEN Bad("ValueError")
           ELSE Ok(s)
      [] l.kind = "GroupNorm" ->
           IF s[2] # l.cin THEN Bad("RuntimeError")
           ELSE IF ((s[1] * s[2]) \div l.groups) * s[3] * s[4] = 1
             THEN Bad("ValueError")
           ELSE Ok(s)
      [] l.kind \in {"MaxPool2d", "AvgPool2d"} ->
           IF PoolOut(s[3], l.k, l.stride) = 0
              \/ PoolOut(s[4], l.k, l.stride) = 0
             THEN Bad("RuntimeError")
           ELSE Ok(<<s[1], s[2], PoolOut(s[3], l.k, l.stride),
                     PoolOut(s[4], l.k, l.stride)>>)
      [] l.kind = "AdaptiveAvgPool2d" -> Ok(<<s[1], s[2], l.k, l.k>>)
      [] l.kind \in {"ReLU", "Dropout"} -> Ok(s)

RECURSIVE ApplyLayers(_, _, _)
\* nn.Sequential.forward: the layers in order, the first exception ends it.
ApplyLayers(ls, s, train) ==
    IF ls = <<>> THEN Ok(s)
    ELSE LET r == ApplyLayer(Head(ls), s, train)
         IN IF r.err # NoErr THEN r ELSE ApplyLayers(Tail(ls), r.shape, train)

\* x.view(-1, 10): the element count has to be a multiple of 10.
View(s) ==
    LET n == s[1] * s[2] * s[3] * s[4]
    IN IF n % 10 # 0 THEN Bad("RuntimeError") ELSE Ok(<<n \div 10, 10>>)

\* ------------------------------------------------------------------ state
HasAttr(name) == \E i \in 1..Len(attrs) : attrs[i].attr = name

GetAttr(name) == attrs[CHOOSE i \in 1..Len(attrs) : attrs[i].attr = name]

\* Shapes of the tensors given to forward: batches of 1..MaxN images of 1
\* or 3 channels, H and W in 1..MaxHW and at most MaxSkew apart.
InputShapes ==
    {s \in (1..MaxN) \X {1, 3} \X (1..MaxHW) \X (1..MaxHW) :
        s[3] - s[4] <= MaxSkew /\ s[4] - s[3] <= MaxSkew}

\* ret before normalizer has been called.
NoCall == [method |-> "", out_channels |-> 0, err |-> NoErr, layer |-> NoLayer]

Init ==
    /\ dropout_value = <<>>
    /\ ret = NoCall
    /\ cls = "none"
    /\ norm = "none"
    /\ pc = "idle"
    /\ idx = 0
    /\ attrs = <<>>
    /\ training = TRUE
    /\ input = <<>>
    /\ x = <<>>
    /\ applied = <<>>
    /\ shapes = <<>>
    /\ err = NoErr

\* An importer assigns the module attribute dropout_value, which the file
\* reads and never assigns.
BindDropoutValue ==
    /\ pc = "idle"
    /\ dropout_value = <<>>
    /\ \E v \in DropoutValues : dropout_value' = <<v>>
    /\ UNCHANGED <<ret, cls, norm, pc, idx, attrs, training, input, x, applied,
                   shapes, err>>

\* normalizer(method, out_channels) called directly.
CallNormalizer ==
    /\ pc = "idle"
    /\ \E method \in MethodArgs, out_channels \in 1..MaxCh :
          ret' = [method |-> method, out_channels |-> out_channels,
                  err |-> normalizer(method, out_channels).err,
                  layer |-> normalizer(method, out_channels).layer]
    /\ UNCHANGED <<dropout_value, cls, norm, pc, idx, attrs, training, input, x,
                   applied, shapes, err>>

\* c(...) is called: __init__ starts (super().__init__() sets training).
\* Only Model takes an argument, norm_method.
Construct ==
    /\ pc = "idle"
    /\ \E c \in Classes, norm_method \in MethodArgs :
          /\ cls' = c
          /\ norm' = IF c = "Model" THEN norm_method ELSE "none"
    /\ pc' = "init"
    /\ idx' = 1
    /\ attrs' = <<>>
    /\ training' = TRUE
    /\ ret' = NoCall
    /\ UNCHANGED <<dropout_value, input, x, applied, shapes, err>>

\* The next assignment statement of __init__.
InitStep ==
    /\ pc = "init"
    /\ idx <= Len(InitOf(cls, norm))
    /\ LET r == EvalStmt(InitOf(cls, norm)[idx], dropout_value)
       IN IF r.err # NoErr
            THEN /\ pc' = "init_error"
                 /\ err' = r.err
                 /\ UNCHANGED <<idx, attrs>>
            ELSE /\ attrs' = Append(attrs, r.value)
                 /\ idx' = idx + 1
                 /\ UNCHANGED <<pc, err>>
    /\ UNCHANGED <<dropout_value, ret, cls, norm, training, input, x, applied,
                   shapes>>

\* __init__ returns.
InitReturn ==
    /\ pc = "init"
    /\ idx > Len(InitOf(cls, norm))
    /\ pc' = "ready"
    /\ UNCHANGED <<dropout_value, ret, cls, norm, idx, attrs, training, input,
                   x, applied, shapes, err>>

\* instance.train(mode), before the first forward.
SetTraining ==
    /\ pc = "ready"
    /\ \E mode \in BOOLEAN : training # mode /\ training' = mode
    /\ UNCHANGED <<dropout_value, ret, cls, norm, pc, idx, attrs, input, x,
                   applied, shapes, err>>

\* forward(x) is called with a tensor of shape s.  One call is followed per
\* instance: forward keeps nothing on the instance that a later call's shapes
\* depend on.
Forward ==
    /\ pc = "ready"
    /\ \E s \in InputShapes : input' = s /\ x' = s
    /\ idx' = 1
    /\ applied' = <<>>
    /\ shapes' = <<>>
    /\ err' = NoErr
    /\ pc' = "forward"
    /\ UNCHANGED <<dropout_value, ret, cls, norm, attrs, training>>

\* x = self.<attr>(x), the next statement of forward.
ForwardStep ==
    /\ pc = "forward"
    /\ idx <= Len(ForwardOf(cls))
    /\ LET a == ForwardOf(cls)[idx]
           r == IF HasAttr(a)
                  THEN ApplyLayers(Flatten(GetAttr(a).blocks), x, training)
                  ELSE [err |-> Raise("repository", "AttributeError"),
                        shape |-> <<>>]
       IN IF r.err # NoErr
            THEN /\ pc' = "forward_error"
                 /\ err' = r.err
                 /\ UNCHANGED <<idx, x, applied, shapes>>
            ELSE /\ x' = r.shape
                 /\ applied' = Append(applied, a)
                 /\ shapes' = Append(shapes, r.shape)
                 /\ idx' = idx + 1
                 /\ UNCHANGED <<pc, err>>
    /\ UNCHANGED <<dropout_value, ret, cls, norm, attrs, training, input>>

\* x = x.view(-1, 10)
ForwardView ==
    /\ pc = "forward"
    /\ idx = Len(ForwardOf(cls)) + 1
    /\ LET r == View(x)
       IN IF r.err # NoErr
            THEN /\ pc' = "forward_error"
                 /\ err' = r.err
                 /\ UNCHANGED <<idx, x, shapes>>
            ELSE /\ x' = r.shape
                 /\ shapes' = Append(shapes, r.shape)
                 /\ idx' = idx + 1
                 /\ UNCHANGED <<pc, err>>
    /\ UNCHANGED <<dropout_value, ret, cls, norm, attrs, training, input,
                   applied>>

\* return F.log_softmax(x, dim=...): the shape of x is the shape returned.
ForwardReturn ==
    /\ pc = "forward"
    /\ idx = Len(ForwardOf(cls)) + 2
    /\ pc' = "done"
    /\ UNCHANGED <<dropout_value, ret, cls, norm, idx, attrs, training, input,
                   x, applied, shapes, err>>

Next ==
    \/ BindDropoutValue
    \/ CallNormalizer
    \/ Construct
    \/ InitStep
    \/ InitReturn
    \/ SetTraining
    \/ Forward
    \/ ForwardStep
    \/ ForwardView
    \/ ForwardReturn

Spec == Init /\ [][Next]_vars

\* ---------------------------------------------------- views of the state
\* __init__ has returned: every attribute is stored.
Constructed == pc \in {"ready", "forward", "forward_error", "done"}

\* forward has been called.
InForward == pc \in {"forward", "forward_error", "done"}

\* Model was given one of the three members of NormalizationMethod.
DeclaredArgs == cls = "Model" => norm \in NormalizationMethod

\* Every block stored on the instance so far, as <<attribute, block>>.
StoredBlocks ==
    UNION {{<<attrs[i].attr, attrs[i].blocks[b]>> :
                b \in 1..Len(attrs[i].blocks)} : i \in 1..Len(attrs)}

\* Every layer stored on the instance so far.
StoredLayers ==
    UNION {{blk[2][i] : i \in 1..Len(blk[2])} : blk \in StoredBlocks}

RECURSIVE LayersOf(_)
\* The layers behind a sequence of attribute names, in order.
LayersOf(names) ==
    IF names = <<>> THEN <<>>
    ELSE Flatten(GetAttr(Head(names)).blocks) \o LayersOf(Tail(names))

\* The layers of the instance in the order forward applies them.
ForwardLayers == LayersOf(ForwardOf(cls))

Kinds(ls) == [i \in 1..Len(ls) |-> ls[i].kind]

NormKinds == {"BatchNorm2d", "GroupNorm"}

RECURSIVE Halved(_, _)
\* n halved (rounding down) t times.
Halved(n, t) == IF t = 0 THEN n ELSE Halved(n \div 2, t - 1)

\* ------------------------------------------------------------------ C1
\* The shape C1 gives x after statement i of Model.forward (the ninth is the
\* view): ConvLayers keep H and W and end in 32 channels, each TransBlock
\* yields 16 channels and halves H and W, gap yields 1x1, out 10 channels.
C1_Expected(i, s) ==
    CASE i \in {1, 3, 5} -> <<s[1], 32, Halved(s[3], (i - 1) \div 2),
                              Halved(s[4], (i - 1) \div 2)>>
      [] i \in {2, 4, 6} -> <<s[1], 16, Halved(s[3], i \div 2),
                              Halved(s[4], i \div 2)>>
      [] i = 7 -> <<s[1], 16, 1, 1>>
      [] i = 8 -> <<s[1], 10, 1, 1>>
      [] i = 9 -> <<s[1], 10>>

\* C1: for BATCH, LAYER and GROUP, Model is constructed without an error and
\* forward maps every input (N, 3, H, W) with N >= 1 and H, W >= 8 to a
\* tensor of shape (N, 10), through the intermediate shapes C1_Expected.
C1_ModelShape ==
    (cls = "Model" /\ norm \in NormalizationMethod) =>
        /\ pc # "init_error"
        /\ (InForward /\ input[2] = 3 /\ input[3] >= 8 /\ input[4] >= 8) =>
              /\ pc # "forward_error"
              /\ \A i \in 1..Len(shapes) : shapes[i] = C1_Expected(i, input)
              /\ pc = "done" => x = <<input[1], 10>>

\* A GROUP model has returned (1, 10) for a single 9x8 image in training mode.
C1_Witness ==
    /\ cls = "Model" /\ norm = "GROUP" /\ pc = "done" /\ training
    /\ input = <<1, 3, 9, 8>>
    /\ x = <<1, 10>>

\* ------------------------------------------------------------------ C9
\* Output channels of the nearest convolution before position i of ls, the
\* image's channel count when there is none.
ChannelsBefore(ls, i) ==
    LET convs == {j \in 1..(i - 1) : ls[j].kind = "Conv2d"}
    IN IF convs = {} THEN ImageChannels(cls)
       ELSE ls[CHOOSE j \in convs : \A k \in convs : k <= j].cout

\* C9: following the order forward applies the layers in, each convolution's
\* in_channels and each normalization's channel count equal the out_channels
\* of the nearest preceding convolution; the first convolution takes the
\* image's channels and the last one yields 10.
C9_ChannelChain ==
    pc = "ready" =>
        LET ls == ForwardLayers
            convs == {i \in 1..Len(ls) : ls[i].kind = "Conv2d"}
        IN /\ \A i \in 1..Len(ls) :
                ls[i].kind \in NormKinds \cup {"Conv2d"} =>
                    ls[i].cin = ChannelsBefore(ls, i)
           /\ convs # {}
           /\ \A i \in convs :
                (\A j \in convs : j <= i) => ls[i].cout = 10

\* session_6_Model is constructed, with its eleven attributes stored.
C9_Witness ==
    /\ cls = "session_6_Model" /\ pc = "ready"
    /\ Len(attrs) = 11

\* ------------------------------------------------------------------ C7
\* The part of C7 about Model: with one of the three methods __init__ raises
\* nothing, and every normalization layer it stores is the one the method
\* selects, over 16 or 32 channels, a multiple of its group count.
C7_ModelNorms ==
    (cls = "Model" /\ norm \in NormalizationMethod) =>
        /\ pc # "init_error"
        /\ \A l \in StoredLayers :
              l.kind \in NormKinds =>
                  /\ l.cout \in {16, 32}
                  /\ l.kind = (IF norm = "BATCH" THEN "BatchNorm2d"
                                                 ELSE "GroupNorm")
                  /\ l.kind = "GroupNorm" =>
                        /\ l.groups = (IF norm = "LAYER" THEN 1 ELSE NUM_GROUPS)
                        /\ l.cout % l.groups = 0

\* C7 as stated: normalizer returns BatchNorm2d(out_channels) for BATCH,
\* GroupNorm(1, out_channels) for LAYER and GroupNorm(8, out_channels) for
\* GROUP, for every out_channels; for any other method it raises ValueError
\* and returns no layer; Model's ConvLayers use multiples of the group count.
C7_AsStated ==
    /\ ret.method # "" =>
          /\ ret.method = "BATCH" =>
                ret.err = NoErr /\ ret.layer = BatchNorm2d(ret.out_channels)
          /\ ret.method = "LAYER" =>
                ret.err = NoErr /\ ret.layer = GroupNorm(1, ret.out_channels)
          /\ ret.method = "GROUP" =>
                ret.err = NoErr /\ ret.layer = GroupNorm(8, ret.out_channels)
          /\ ret.method \notin NormalizationMethod =>
                ret.err.type = "ValueError" /\ ret.layer = NoLayer
    /\ C7_ModelNorms

\* C7 amended: as C7_AsStated, except that for GROUP the layer is returned
\* only when out_channels is a multiple of 8; for any other out_channels the
\* library's GroupNorm constructor raises ValueError and no layer is returned.
C7_Normalizer ==
    /\ ret.method # "" =>
          /\ ret.method = "BATCH" =>
                ret.err = NoErr /\ ret.layer = BatchNorm2d(ret.out_channels)
          /\ ret.method = "LAYER" =>
                ret.err = NoErr /\ ret.layer = GroupNorm(1, ret.out_channels)
          /\ (ret.method = "GROUP" /\ ret.out_channels % 8 = 0) =>
                ret.err = NoErr /\ ret.layer = GroupNorm(8, ret.out_channels)
          /\ (ret.method = "GROUP" /\ ret.out_channels % 8 # 0) =>
                /\ ret.err = Raise("library", "ValueError")
                /\ ret.layer = NoLayer
          /\ ret.method \notin NormalizationMethod =>
                /\ ret.err = Raise("repository", "ValueError")
                /\ ret.layer = NoLayer
    /\ C7_ModelNorms

\* normalizer(GROUP, 10) has been called: 8 does not divide 10.
C7_Witness ==
    /\ ret.method = "GROUP" /\ ret.out_channels = 10
    /\ ret.err.type = "ValueError" /\ ret.layer = NoLayer

\* ----------------------------------------------------------------- C10
TwinOf(c) ==
    IF c = "Session_7_Model_2" THEN "Session_7_Model_3" ELSE "Session_7_Model_2"

\* What the __init__ of class c stores, with the global bound as dv says.
StoredBy(c, dv) ==
    [i \in 1..Len(InitOf(c, "none")) |-> EvalStmt(InitOf(c, "none")[i], dv).value]

BlocksNamed(stmts, name) ==
    stmts[CHOOSE i \in 1..Len(stmts) : stmts[i].attr = name].blocks

RECURSIVE Run(_, _, _, _, _)
\* The shapes of x after each statement of a forward that applies the
\* attributes names of stmts to a tensor of shape s and then the view, and
\* the exception it ends in.
Run(stmts, names, s, train, sofar) ==
    IF names = <<>>
      THEN LET r == View(s)
           IN IF r.err # NoErr THEN [shapes |-> sofar, err |-> r.err]
              ELSE [shapes |-> Append(sofar, r.shape), err |-> NoErr]
      ELSE LET r == ApplyLayers(Flatten(BlocksNamed(stmts, Head(names))),
                                s, train)
           IN IF r.err # NoErr THEN [shapes |-> sofar, err |-> r.err]
              ELSE Run(stmts, Tail(names), r.shape, train,
                       Append(sofar, r.shape))

\* C10: Session_7_Model_2 and Session_7_Model_3 store the same layers under
\* the same names, apply them in the same order, and on every input either
\* both raise or both go through the same shapes to the same output shape.
C10_TwinModels ==
    cls \in {"Session_7_Model_2", "Session_7_Model_3"} =>
        LET twin == StoredBy(TwinOf(cls), dropout_value)
        IN /\ pc # "init_error"
           /\ Len(attrs) <= Len(twin)
           /\ attrs = SubSeq(twin, 1, Len(attrs))
           /\ Constructed => Len(attrs) = Len(twin)
           /\ ForwardOf(cls) = ForwardOf(TwinOf(cls))
           /\ pc \in {"done", "forward_error"} =>
                 Run(twin, ForwardOf(TwinOf(cls)), input, training, <<>>)
                    = [shapes |-> shapes, err |-> err]

\* Session_7_Model_3 has returned (2, 10) for two 28x28 images.
C10_Witness ==
    /\ cls = "Session_7_Model_3" /\ pc = "done"
    /\ input = <<2, 1, 28, 28>>
    /\ x = <<2, 10>>

\* ------------------------------------------------------------------ C2
\* The module global is as the file leaves it (unbound) or bound to a
\* probability the library accepts.
GlobalUnboundOrValid ==
    dropout_value = <<>> \/ (dropout_value[1] >= 0 /\ dropout_value[1] <= 100)

\* C2: each of the four session models is constructed and maps an input of
\* shape (N, 1, 28, 28) to (N, 10); x is 12x12 after pool1 (the fourth
\* statement of forward) and 1x1 after the last statement before the view.
C2_SessionShapes ==
    (cls \in SessionClasses /\ GlobalUnboundOrValid) =>
        /\ pc # "init_error"
        /\ (InForward /\ input[2] = 1 /\ input[3] = 28 /\ input[4] = 28) =>
              /\ pc # "forward_error"
              /\ Len(shapes) >= 4 => (shapes[4][3] = 12 /\ shapes[4][4] = 12)
              /\ Len(shapes) >= Len(ForwardOf(cls)) =>
                    /\ shapes[Len(ForwardOf(cls))][3] = 1
                    /\ shapes[Len(ForwardOf(cls))][4] = 1
              /\ pc = "done" => x = <<input[1], 10>>

\* ------------------------------------------------------------------ C3
\* C3: constructing a class with its declared arguments, and calling its
\* forward, never ends in an exception that the file's own statements raise
\* (a name the file does not define, a value the file rejects): every
\* exception comes from inside the library.
C3_OnlyLibraryErrors ==
    DeclaredArgs => err.origin # "repository"

\* ------------------------------------------------------------------ C8
\* C8: whenever forward returns, the tensor returned has as many rows as the
\* input has images.
C8_BatchSizePreserved ==
    pc = "done" => x[1] = input[1]

\* ------------------------------------------------------------------ C4
\* The normalization layers count as one kind of layer.
Role(kind) == IF kind \in NormKinds THEN "Normalization" ELSE kind

\* What Model.__init__ stores when given BATCH, as kinds of layers in order.
C4_Reference ==
    [i \in 1..Len(Model_init("BATCH")) |->
        Kinds(Flatten(EvalStmt(Model_init("BATCH")[i], dropout_value).value.blocks))]

C4_StoredKinds == [i \in 1..Len(attrs) |-> Kinds(Flatten(attrs[i].blocks))]

\* C4 as stated: the kinds of layers Model is built from, and their order,
\* are the same for every norm_method.
C4_AsStated ==
    (cls = "Model" /\ pc = "ready") => C4_StoredKinds = C4_Reference

\* C4 amended: for every norm_method Model is built from the same sequence
\* of convolution, normalization, activation, dropout and pooling layers in
\* the same order; the one thing that depends on norm_method is the class of
\* the normalization layers, BatchNorm2d for BATCH and GroupNorm for LAYER
\* and GROUP.
C4_SameRoles ==
    (cls = "Model" /\ pc = "ready") =>
        /\ Len(C4_StoredKinds) = Len(C4_Reference)
        /\ \A i \in 1..Len(C4_StoredKinds) :
              /\ Len(C4_StoredKinds[i]) = Len(C4_Reference[i])
              /\ \A j \in 1..Len(C4_StoredKinds[i]) :
                    /\ Role(C4_StoredKinds[i][j]) = Role(C4_Reference[i][j])
                    /\ C4_StoredKinds[i][j] \in NormKinds =>
                          C4_StoredKinds[i][j] =
                             (IF norm = "BATCH" THEN "BatchNorm2d"
                                                ELSE "GroupNorm")

\* Model(LAYER) is constructed: its normalization layers are GroupNorms.
C4_Witness ==
    /\ cls = "Model" /\ norm = "LAYER" /\ pc = "ready"
    /\ \E l \in StoredLayers : l.kind = "GroupNorm" /\ l.groups = 1

\* ------------------------------------------------------------------ C5
Count(name, seq) == Cardinality({i \in 1..Len(seq) : seq[i] = name})

AttrNames == [i \in 1..Len(attrs) |-> attrs[i].attr]

IsApplied(name) == name # "dropout"

\* C5 as stated: when forward returns, every attribute __init__ stored has
\* been applied exactly once, and nothing else has been applied.
C5_AsStated ==
    pc = "done" =>
        /\ \A i \in 1..Len(attrs) : Count(attrs[i].attr, applied) = 1
        /\ \A j \in 1..Len(applied) : HasAttr(applied[j])

\* C5 amended: forward applies attributes that __init__ stored, each at most
\* once and in the order __init__ stored them, whatever the input; when it
\* returns it has applied every stored attribute exactly once except
\* self.dropout of session_6_Model and Session_7_Model_1, which is stored
\* and never applied.
C5_LinearSequence ==
    InForward =>
        /\ Len(applied) <= Len(SelectSeq(AttrNames, IsApplied))
        /\ applied = SubSeq(SelectSeq(AttrNames, IsApplied), 1, Len(applied))
        /\ \A i \in 1..Len(attrs) : Count(attrs[i].attr, AttrNames) = 1
        /\ pc = "done" =>
              /\ applied = SelectSeq(AttrNames, IsApplied)
              /\ HasAttr("dropout") <=>
                    cls \in {"session_6_Model", "Session_7_Model_1"}

\* The forward of a Session_7_Model_1 has returned: ten attributes applied,
\* eleven stored.
C5_Witness ==
    /\ cls = "Session_7_Model_1" /\ pc = "done"
    /\ Len(applied) = 10 /\ Len(attrs) = 11
    /\ HasAttr("dropout") /\ Count("dropout", applied) = 0

\* ------------------------------------------------------------------ C6
\* The stored blocks C6 is about: those with a normalization and an
\* activation.
C6_Blocks ==
    {blk \in StoredBlocks :
        /\ \E i \in 1..Len(blk[2]) : blk[2][i].kind \in NormKinds
        /\ \E i \in 1..Len(blk[2]) : blk[2][i].kind = "ReLU"}

C6_Roles(blk) == [i \in 1..Len(blk[2]) |-> Role(blk[2][i].kind)]

\* C6 as stated: every such block is convolution, normalization, activation
\* and then dropout when it has one.
C6_AsStated ==
    \A blk \in C6_Blocks :
        C6_Roles(blk) \in {<<"Conv2d", "Normalization", "ReLU">>,
                           <<"Conv2d", "Normalization", "ReLU", "Dropout">>}

\* The blocks that normalize before they activate.
C6_NormFirst(blk) ==
    cls = "Model" \/ (cls = "Session_7_Model_1" /\ blk[1] = "convblock7")

\* C6 amended: every such block starts with its convolution and ends with
\* its dropout when it has one; ConvLayer and convblock7 of Session_7_Model_1
\* apply normalization and then activation, every other convblock of the
\* session models applies activation and then normalization.
C6_BlockOrder ==
    \A blk \in C6_Blocks :
        IF C6_NormFirst(blk)
          THEN C6_Roles(blk) = <<"Conv2d", "Normalization", "ReLU", "Dropout">>
          ELSE C6_Roles(blk) \in
                  {<<"Conv2d", "ReLU", "Normalization">>,
                   <<"Conv2d", "ReLU", "Normalization", "Dropout">>}

\* Session_7_Model_1 is constructed: convblock1 activates first, convblock7
\* normalizes first.
C6_Witness ==
    /\ cls = "Session_7_Model_1" /\ pc = "ready"
    /\ \E blk \in C6_Blocks : blk[1] = "convblock1" /\ ~C6_NormFirst(blk)
    /\ \E blk \in C6_Blocks : blk[1] = "convblock7" /\ C6_NormFirst(blk)

====
